---- MODULE Spec2Model ----
(***************************************************************************)
(* A model of trunk/firefly.c: the firefly algorithm driver (ffa), the     *)
(* movement rule (move_fflies), the boundary correction (fix_positions),   *)
(* the output of the positions (output_points) and the quicksort by        *)
(* intensity (sort_flies, partition).                                      *)
(*                                                                         *)
(* The C doubles are modelled as fixed-point integers with Scale units to  *)
(* 1.0, one decimal digit more than the "%.2lf" of output_points prints,   *)
(* so that the formatting rounds.  Indices are the code's, 0..n-1.         *)
(***************************************************************************)
EXTENDS Integers, Sequences, FiniteSets, TLC

VARIABLES runs, sortSt, clampSt, laneSt

vars == <<runs, sortSt, clampSt, laneSt>>

(***************************************************************************)
(* Bounds of the model.                                                    *)
(***************************************************************************)
MaxN == 3
MaxT == 2
MaxSeed == 3

(***************************************************************************)
(* Fixed-point arithmetic standing for the doubles.                        *)
(***************************************************************************)
FmtDigits == 2
Scale == 10 ^ (FmtDigits + 1)
Half == Scale \div 2

\* a * b of two fixed-point numbers, rounded to the nearest unit
Mul(a, b) == (a * b + Half) \div Scale

RECURSIVE IsqrtB(_, _, _)
IsqrtB(v, lo, hi) ==
    IF lo >= hi THEN lo
    ELSE LET mid == (lo + hi + 1) \div 2
         IN  IF mid * mid <= v THEN IsqrtB(v, mid, hi) ELSE IsqrtB(v, lo, mid - 1)

\* sqrt() of a fixed-point number v >= 0 (the root of v * Scale is at most
\* the mean of v and Scale)
Sqrt(v) == IsqrtB(v * Scale, 0, (v + Scale) \div 2 + 1)

\* exp(-t) for a fixed-point t >= 0: 1 / (1 + t + t^2/2), which is 1.0 at 0
\* and decreases strictly towards 0 as t grows
ExpNeg(t) == (2 * Scale * Scale * Scale) \div (2 * Scale * Scale + 2 * Scale * t + t * t)

(***************************************************************************)
(* my_rand() and srand(): a seeded generator of values in [0, 1).          *)
(***************************************************************************)
RandMod == 16
NextRand(s) == (5 * s + 3) % RandMod
RandVal(s) == (s * Scale) \div RandMod

RECURSIVE Adv(_, _)
\* the generator's state after k calls of my_rand()
Adv(s, k) == IF k = 0 THEN s ELSE Adv(NextRand(s), k - 1)

\* the value the k-th call of my_rand() from state s returns (k >= 1)
my_rand(s, k) == RandVal(Adv(s, k))

(***************************************************************************)
(* Populations: three parallel arrays indexed 0..nfflies-1.                *)
(***************************************************************************)
Idx(n) == 0 .. (n - 1)
nfflies(pop) == Cardinality(DOMAIN pop.x)

NoPop == [x |-> <<>>, y |-> <<>>, light |-> <<>>]

\* init_fflies: the population, and the generator's state after its 2*ncount draws
init_fflies(ncount, min, max, rng) ==
    LET xrange == max.x - min.x
        yrange == max.y - min.y
    IN  [pop |-> [x     |-> [i \in Idx(ncount) |-> Mul(my_rand(rng, 2 * i + 1), xrange) + min.x],
                  y     |-> [i \in Idx(ncount) |-> Mul(my_rand(rng, 2 * i + 2), yrange) + min.y],
                  light |-> [i \in Idx(ncount) |-> 0]],
         rng |-> Adv(rng, 2 * ncount)]

\* (mutant) the snapshot without its third memcpy
snapshot_positions_only(dst, src) == [dst EXCEPT !.x = src.x, !.y = src.y]

\* the three memcpy of ffa's loop
snapshot(dst, src) == [dst EXCEPT !.x = src.x, !.y = src.y, !.light = src.light]

\* the caller's objective functions (obj_func), each writing every light value
Objectives == {"sphere", "plane"}
ObjValue(f, x, y) ==
    IF f = "sphere" THEN -(Mul(x, x) + Mul(y, y)) ELSE x + y
evaluate(f, pop) ==
    [pop EXCEPT !.light = [i \in DOMAIN pop.x |-> ObjValue(f, pop.x[i], pop.y[i])]]

(***************************************************************************)
(* move_fflies: the body of the inner loop for one pair (i, j), and        *)
(* fix_positions.                                                          *)
(***************************************************************************)
alpha == Scale \div 5
gamma == Scale
beta0 == Scale

\* the test of line 141
Brighter(pop, pop_old, i, j) == pop.light[i] < pop_old.light[j]

\* beta of lines 144-151
Beta(pop, pop_old, i, j) ==
    LET xdist == pop.x[i] - pop_old.x[j]
        ydist == pop.y[i] - pop_old.y[j]
        r     == Sqrt(Mul(xdist, xdist) + Mul(ydist, ydist))
    IN  Mul(beta0, ExpNeg(Mul(gamma, Mul(r, r))))

\* one coordinate of lines 154-155
Attract(beta, own, other, rnd) ==
    Mul(Scale - beta, own) + Mul(beta, other) + Mul(alpha, rnd - Half)

\* (mutant) every update starts from the position firefly i has in the snapshot
move_pair_from_snapshot(pop, pop_old, i, j, rng) ==
    IF j # i /\ Brighter(pop, pop_old, i, j)
    THEN LET beta == Beta(pop_old, pop_old, i, j)
         IN  [pop |-> [pop EXCEPT
                         !.x[i] = Attract(beta, pop_old.x[i], pop_old.x[j], my_rand(rng, 1)),
                         !.y[i] = Attract(beta, pop_old.y[i], pop_old.y[j], my_rand(rng, 2))],
              draws |-> 2]
    ELSE [pop |-> pop, draws |-> 0]

\* (mutant) firefly j is read in the current population
move_pair_reads_current(pop, pop_old, i, j, rng) ==
    IF j # i /\ Brighter(pop, pop_old, i, j)
    THEN LET beta == Beta(pop, pop, i, j)
         IN  [pop |-> [pop EXCEPT
                         !.x[i] = Attract(beta, pop.x[i], pop.x[j], my_rand(rng, 1)),
                         !.y[i] = Attract(beta, pop.y[i], pop.y[j], my_rand(rng, 2))],
              draws |-> 2]
    ELSE [pop |-> pop, draws |-> 0]

\* lines 138-156 for one (i, j): the population, and the number of draws made
move_pair(pop, pop_old, i, j, rng) ==
    IF j # i /\ Brighter(pop, pop_old, i, j)
    THEN LET beta == Beta(pop, pop_old, i, j)
         IN  [pop |-> [pop EXCEPT
                         !.x[i] = Attract(beta, pop.x[i], pop_old.x[j], my_rand(rng, 1)),
                         !.y[i] = Attract(beta, pop.y[i], pop_old.y[j], my_rand(rng, 2))],
              draws |-> 2]
    ELSE [pop |-> pop, draws |-> 0]

\* (mutant) a firefly that overstepped a side is reflected at it
fix_positions_reflect(pop, min, max) ==
    LET Reflect(v, lo, hi) ==
            LET a == IF v < lo THEN lo + (lo - v) ELSE v
            IN  IF a > hi THEN hi - (a - hi) ELSE a
    IN  [pop EXCEPT !.x = [i \in DOMAIN pop.x |-> Reflect(pop.x[i], min.x, max.x)],
                    !.y = [i \in DOMAIN pop.y |-> Reflect(pop.y[i], min.y, max.y)]]

\* one coordinate of fix_positions: the two tests in the code's order
Clamp(v, lo, hi) ==
    LET a == IF v < lo THEN lo ELSE v
    IN  IF a > hi THEN hi ELSE a

fix_positions(pop, min, max) ==
    [pop EXCEPT !.x = [i \in DOMAIN pop.x |-> Clamp(pop.x[i], min.x, max.x)],
                !.y = [i \in DOMAIN pop.y |-> Clamp(pop.y[i], min.y, max.y)]]

(***************************************************************************)
(* output_points: "%.2lf %.2lf\n" for every firefly.                       *)
(***************************************************************************)
\* a fixed-point number printed with FmtDigits decimals, in units of 10^-FmtDigits
Fmt(v) ==
    LET u == Scale \div (10 ^ FmtDigits)
    IN  IF v >= 0 THEN (v + u \div 2) \div u ELSE -((-v + u \div 2) \div u)

FileNames == {"start.dat", "end.dat"}
NoFile == [written |-> FALSE, lines |-> <<>>]
FileLines(pop) == [k \in 1 .. nfflies(pop) |-> <<Fmt(pop.x[k - 1]), Fmt(pop.y[k - 1])>>]

\* what fopen and the unconditional fclose can do: the file opens; fopen returns
\* NULL and fclose(NULL), undefined, returns; or it faults
OpenOutcomes == {"opened", "null_returns", "null_faults"}

(***************************************************************************)
(* ffa: one run.  runs maps each run to its record.                        *)
(***************************************************************************)
Pt(x, y) == [x |-> x, y |-> y]

Rects ==
    { [min |-> Pt(0, 0), max |-> Pt(Scale, Scale)],
      [min |-> Pt(-Half, 0), max |-> Pt(Half, Scale \div 4)],
      [min |-> Pt(Scale, 0), max |-> Pt(0, Scale)] }

Configs ==
    [nfireflies : 0 .. MaxN, niteration : 0 .. MaxT, rect : Rects,
     f : Objectives, seed : 0 .. MaxSeed]

NewRun(cfg) ==
    [cfg |-> cfg, pc |-> "srand", rng |-> 0,
     fflies |-> NoPop, fflies_old |-> NoPop,
     i |-> 0, mi |-> 0, mj |-> 0,
     files |-> [n \in FileNames |-> NoFile],
     failed |-> {},
     \* history: the calls made with the state each left, the positions at each
     \* evaluation, the state at the start of the current move_fflies and the
     \* updates it has applied
     log |-> <<>>, evalHist |-> <<>>,
     moveStart |-> [pop |-> NoPop, old |-> NoPop], upd |-> <<>>]

Entry(op, pop, old, rng) == [op |-> op, fflies |-> pop, fflies_old |-> old, rng |-> rng]

Other == UNCHANGED <<sortSt, clampSt, laneSt>>
Set(r, rec) == runs' = [runs EXCEPT ![r] = rec] /\ Other

\* (mutant) each run seeds the generator with a value of its own
ffa_srand_own_seed(r) ==
    LET R == runs[r]
    IN  /\ R.pc = "srand"
        /\ Set(r, [R EXCEPT !.pc = "init_fflies", !.rng = (R.cfg.seed + r) % RandMod])

\* line 74: the seed is the run's time(NULL)
ffa_srand(r) ==
    LET R == runs[r]
    IN  /\ R.pc = "srand"
        /\ Set(r, [R EXCEPT !.pc = "init_fflies", !.rng = R.cfg.seed % RandMod])

\* line 77
ffa_init_fflies(r) ==
    LET R == runs[r]
        c == R.cfg
        m == init_fflies(c.nfireflies, c.rect.min, c.rect.max, R.rng)
    IN  /\ R.pc = "init_fflies"
        /\ Set(r, [R EXCEPT !.pc = "init_old", !.fflies = m.pop, !.rng = m.rng,
                            !.log = Append(@, Entry("init_fflies", m.pop, R.fflies_old, m.rng))])

\* line 80
ffa_init_old(r) ==
    LET R == runs[r]
        c == R.cfg
        m == init_fflies(c.nfireflies, c.rect.min, c.rect.max, R.rng)
    IN  /\ R.pc = "init_old"
        /\ Set(r, [R EXCEPT !.pc = "output_start", !.fflies_old = m.pop, !.rng = m.rng,
                            !.log = Append(@, Entry("init_fflies", R.fflies, m.pop, m.rng))])

\* output_points(pop, fname), continuing at pc next
output_points(r, fname, next) ==
    LET R == runs[r]
    IN  \E o \in OpenOutcomes :
          Set(r, [R EXCEPT
                    !.pc = IF o = "null_faults" THEN "crashed" ELSE next,
                    !.files[fname] = IF o = "opened"
                                     THEN [written |-> TRUE, lines |-> FileLines(R.fflies)]
                                     ELSE @,
                    !.failed = IF o = "opened" THEN @ ELSE @ \cup {fname},
                    !.log = Append(@, Entry("output_points", R.fflies, R.fflies_old, R.rng))])

\* line 84
ffa_output_start(r) ==
    /\ runs[r].pc = "output_start"
    /\ output_points(r, "start.dat", "loop")

\* (mutant) the loop runs once more
LoopGuard_le(i, niteration) == i <= niteration

\* the test of the for of line 85
LoopGuard(i, niteration) == i < niteration

ffa_loop(r) ==
    LET R == runs[r]
    IN  /\ R.pc = "loop"
        /\ Set(r, [R EXCEPT !.pc = IF LoopGuard(R.i, R.cfg.niteration)
                                   THEN "snapshot" ELSE "output_end"])

\* lines 88-90
ffa_snapshot(r) ==
    LET R == runs[r]
        o == snapshot(R.fflies_old, R.fflies)
    IN  /\ R.pc = "snapshot"
        /\ Set(r, [R EXCEPT !.pc = "evaluate", !.fflies_old = o,
                            !.log = Append(@, Entry("snapshot", R.fflies, o, R.rng))])

\* line 93, and the entry of move_fflies
ffa_evaluate(r) ==
    LET R == runs[r]
        p == evaluate(R.cfg.f, R.fflies)
    IN  /\ R.pc = "evaluate"
        /\ Set(r, [R EXCEPT !.pc = "move", !.fflies = p, !.mi = 0, !.mj = 0,
                            !.log = Append(@, Entry("evaluate", p, R.fflies_old, R.rng)),
                            !.evalHist = Append(@, [x |-> R.fflies.x, y |-> R.fflies.y]),
                            !.moveStart = [pop |-> p, old |-> R.fflies_old],
                            !.upd = <<>>])

\* one pass of the body of the inner loop, lines 136-157, with the loops' steps
move_step(r) ==
    LET R == runs[r]
        n == nfflies(R.fflies)
        m == move_pair(R.fflies, R.fflies_old, R.mi, R.mj, R.rng)
        g == Adv(R.rng, m.draws)
        last == R.mj + 1 >= n
    IN  /\ R.pc = "move"
        /\ R.mi < n
        /\ Set(r, [R EXCEPT
                     !.fflies = m.pop,
                     !.rng = g,
                     !.mi = IF last THEN R.mi + 1 ELSE R.mi,
                     !.mj = IF last THEN 0 ELSE R.mj + 1,
                     !.log = Append(@, Entry("move_pair", m.pop, R.fflies_old, g)),
                     !.upd = IF m.draws = 0 THEN @
                             ELSE Append(@, [i |-> R.mi, j |-> R.mj,
                                             fromx |-> R.fflies.x[R.mi],
                                             fromy |-> R.fflies.y[R.mi],
                                             r1 |-> my_rand(R.rng, 1),
                                             r2 |-> my_rand(R.rng, 2),
                                             tox |-> m.pop.x[R.mi],
                                             toy |-> m.pop.y[R.mi]])])

\* line 161, the return of move_fflies and the i++ of ffa's loop
move_fix(r) ==
    LET R == runs[r]
        p == fix_positions(R.fflies, R.cfg.rect.min, R.cfg.rect.max)
    IN  /\ R.pc = "move"
        /\ R.mi >= nfflies(R.fflies)
        /\ Set(r, [R EXCEPT !.pc = "loop", !.i = R.i + 1, !.fflies = p,
                            !.log = Append(@, Entry("fix_positions", p, R.fflies_old, R.rng))])

\* line 101; the point returned at line 103 is never assigned and is not modelled
ffa_output_end(r) ==
    /\ runs[r].pc = "output_end"
    /\ output_points(r, "end.dat", "done")

\* ffa is sequential and the generator behind my_rand is the process's: a
\* run starts when the runs before it are over
Turn(r) == \A q \in DOMAIN runs : q < r => runs[q].pc \in {"done", "crashed"}

Idle == "idle"

Init ==
    /\ \E cfg \in Configs : runs = [r \in {1} |-> NewRun(cfg)]
    /\ sortSt = Idle
    /\ clampSt = Idle
    /\ laneSt = Idle

Next ==
    \/ \E r \in DOMAIN runs : Turn(r) /\ ffa_srand(r)
    \/ \E r \in DOMAIN runs : Turn(r) /\ ffa_init_fflies(r)
    \/ \E r \in DOMAIN runs : Turn(r) /\ ffa_init_old(r)
    \/ \E r \in DOMAIN runs : Turn(r) /\ ffa_output_start(r)
    \/ \E r \in DOMAIN runs : Turn(r) /\ ffa_loop(r)
    \/ \E r \in DOMAIN runs : Turn(r) /\ ffa_snapshot(r)
    \/ \E r \in DOMAIN runs : Turn(r) /\ ffa_evaluate(r)
    \/ \E r \in DOMAIN runs : Turn(r) /\ move_step(r)
    \/ \E r \in DOMAIN runs : Turn(r) /\ move_fix(r)
    \/ \E r \in DOMAIN runs : Turn(r) /\ ffa_output_end(r)

Spec == Init /\ [][Next]_vars

(***************************************************************************)
(* Properties of one run.                                                  *)
(***************************************************************************)
Ops(R) == {R.log[k].op : k \in 1 .. Len(R.log)}
InRect(pop, rect) ==
    \A k \in DOMAIN pop.x :
        /\ rect.min.x <= pop.x[k] /\ pop.x[k] <= rect.max.x
        /\ rect.min.y <= pop.y[k] /\ pop.y[k] <= rect.max.y
AfterFix(R) == R.pc = "loop" /\ R.i >= 1

\* C1: in every run, after the fix_positions that ends move_fflies every
\* firefly lies in the closed rectangle [min, max].
Containment ==
    \A r \in DOMAIN runs : AfterFix(runs[r]) => InRect(runs[r].fflies, runs[r].cfg.rect)

ValidRect(rect) == rect.min.x <= rect.max.x /\ rect.min.y <= rect.max.y
\* the containment for the rectangles with min <= max on both axes
ContainmentValidRect ==
    \A r \in DOMAIN runs :
        (AfterFix(runs[r]) /\ ValidRect(runs[r].cfg.rect))
            => InRect(runs[r].fflies, runs[r].cfg.rect)

BadConfig(c) ==
    \/ c.nfireflies <= 0
    \/ c.niteration <= 0
    \/ c.rect.min.x >= c.rect.max.x
    \/ c.rect.min.y >= c.rect.max.y

\* C3: a run with a non-positive population size or iteration count, or with
\* min >= max on an axis, is rejected before it creates a population, writes
\* a file or performs an iteration.
ConfigRejection ==
    \A r \in DOMAIN runs :
        BadConfig(runs[r].cfg) =>
            /\ runs[r].log = <<>>
            /\ \A n \in FileNames : ~runs[r].files[n].written
            /\ runs[r].i = 0

\* C4: a file that cannot be opened does not stop the run: it neither
\* crashes nor reaches an undefined state.
OutputFailureNonFatal ==
    \A r \in DOMAIN runs : runs[r].failed # {} => runs[r].pc # "crashed"

\* C5: a run with niteration = 0 makes no snapshot, evaluation or move, and
\* what it writes to end.dat is what it wrote to start.dat.
ZeroIterationRun ==
    \A r \in DOMAIN runs :
        LET R == runs[r]
        IN  R.cfg.niteration = 0 =>
              /\ Ops(R) \subseteq {"init_fflies", "output_points"}
              /\ (R.files["start.dat"].written /\ R.files["end.dat"].written)
                    => R.files["end.dat"].lines = R.files["start.dat"].lines
ZeroIterationRunWitness ==
    \E r \in DOMAIN runs :
        LET R == runs[r]
        IN  /\ R.cfg.niteration = 0
            /\ R.pc = "done"
            /\ R.cfg.nfireflies >= 2
            /\ R.files["start.dat"].written /\ R.files["end.dat"].written
            /\ Len(R.files["end.dat"].lines) = R.cfg.nfireflies

\* the pairs (i, j) of the double loop in the order the code takes them
PairSeq(n) == [k \in 1 .. n * n |-> <<(k - 1) \div n, (k - 1) % n>>]
\* the pairs taken before the loops stand at (mi, mj)
PairsBefore(n, mi, mj) == SubSeq(PairSeq(n), 1, mi * n + mj)
\* the updates of firefly i among the first k updates
UpdOf(upd, i, k) == {m \in 1 .. k : upd[m].i = i}
Max(S) == CHOOSE m \in S : \A q \in S : q <= m

\* C9: for each firefly i, move_fflies updates x[i], y[i] once for each
\* j # i, in ascending j, with current.light[i] < previous.light[j], and for no
\* other j; each update starts from the position the preceding update of i
\* left and from the previous position of j; a firefly without such a j keeps
\* its position; no intensity changes.
MovementFold ==
    \A r \in DOMAIN runs :
        LET R == runs[r]
            S == R.moveStart
            n == nfflies(S.pop)
            Due(p) == p[1] # p[2] /\ S.pop.light[p[1]] < S.old.light[p[2]]
            due == SelectSeq(PairsBefore(n, R.mi, R.mj), Due)
        IN  R.pc = "move" =>
              /\ [k \in 1 .. Len(R.upd) |-> <<R.upd[k].i, R.upd[k].j>>] = due
              /\ \A k \in 1 .. Len(R.upd) :
                    LET u == R.upd[k]
                        prev == UpdOf(R.upd, u.i, k - 1)
                        fx == IF prev = {} THEN S.pop.x[u.i] ELSE R.upd[Max(prev)].tox
                        fy == IF prev = {} THEN S.pop.y[u.i] ELSE R.upd[Max(prev)].toy
                        at == [x |-> (u.i :> fx), y |-> (u.i :> fy)]
                        beta == Beta(at, S.old, u.i, u.j)
                    IN  /\ u.fromx = fx /\ u.fromy = fy
                        /\ u.tox = Attract(beta, fx, S.old.x[u.j], u.r1)
                        /\ u.toy = Attract(beta, fy, S.old.y[u.j], u.r2)
              /\ \A i \in Idx(n) :
                    LET mine == UpdOf(R.upd, i, Len(R.upd))
                    IN  /\ R.fflies.x[i] = IF mine = {} THEN S.pop.x[i] ELSE R.upd[Max(mine)].tox
                        /\ R.fflies.y[i] = IF mine = {} THEN S.pop.y[i] ELSE R.upd[Max(mine)].toy
              /\ R.fflies.light = S.pop.light
              /\ R.fflies_old = S.old
\* the loops are over; one firefly was updated twice, the second time from a
\* position that is not its first, another not at all, and a pair was skipped
MovementFoldWitness ==
    \E r \in DOMAIN runs :
        LET R == runs[r]
            n == nfflies(R.fflies)
        IN  /\ R.pc = "move" /\ R.mi = n /\ n >= 3
            /\ \E i \in Idx(n) : UpdOf(R.upd, i, Len(R.upd)) = {}
            /\ \E k \in 1 .. Len(R.upd) : \E m \in 1 .. (k - 1) :
                  /\ R.upd[m].i = R.upd[k].i
                  /\ R.upd[k].fromx # R.moveStart.pop.x[R.upd[k].i]
            /\ \E i \in Idx(n) : Cardinality(UpdOf(R.upd, i, Len(R.upd))) = 1

\* move_fflies has been entered and has taken no pair yet
AtMoveStart(R) == R.pc = "move" /\ R.mi = 0 /\ R.mj = 0

\* C10: when move_fflies starts in iteration t, the previous population has
\* the positions of the current one, and the intensities the objective gave
\* in iteration t-1, on the positions held before that iteration's move; in
\* the first iteration they are 0.
SnapshotLag ==
    \A r \in DOMAIN runs :
        LET R == runs[r]
        IN  AtMoveStart(R) =>
              /\ R.fflies_old.x = R.fflies.x
              /\ R.fflies_old.y = R.fflies.y
              /\ Len(R.evalHist) = R.i + 1
              /\ \A j \in DOMAIN R.fflies_old.light :
                    R.fflies_old.light[j] =
                        IF R.i = 0 THEN 0
                        ELSE ObjValue(R.cfg.f, R.evalHist[R.i].x[j], R.evalHist[R.i].y[j])
\* a second iteration whose previous intensities are neither 0 nor the
\* current ones
SnapshotLagWitness ==
    \E r \in DOMAIN runs :
        LET R == runs[r]
        IN  /\ AtMoveStart(R) /\ R.i >= 1
            /\ \E j \in DOMAIN R.fflies_old.light :
                  /\ R.fflies_old.light[j] # 0
                  /\ R.fflies_old.light[j] # R.fflies.light[j]

\* the loops of a move_fflies are over and a firefly is outside a rectangle
\* with min <= max
Overstepped ==
    \E r \in DOMAIN runs :
        LET R == runs[r]
        IN  /\ R.pc = "move" /\ R.mi >= nfflies(R.fflies)
            /\ ValidRect(R.cfg.rect)
            /\ ~InRect(R.fflies, R.cfg.rect)

(***************************************************************************)
(* Two runs of ffa, one after the other, with one configuration and one    *)
(* seed, so that my_rand replays one sequence in both.                     *)
(***************************************************************************)
InitDet ==
    /\ \E cfg \in Configs : runs = [r \in {1, 2} |-> NewRun(cfg)]
    /\ sortSt = Idle
    /\ clampSt = Idle
    /\ laneSt = Idle

SpecDet == InitDet /\ [][Next]_vars

MinOf(a, b) == IF a <= b THEN a ELSE b

MaxSortN == 4
MaxLight == 2

\* swap(double *, double *) on the elements a and b of one array
swap(arr, a, b) == [arr EXCEPT ![a] = arr[b], ![b] = arr[a]]

\* (mutant) the y values stay where they are
swap_tuple_without_y(pop, a, b) ==
    [pop EXCEPT !.light = swap(pop.light, a, b), !.x = swap(pop.x, a, b)]

\* the three swaps that partition makes for one pair of indices
swap_tuple(pop, a, b) ==
    [pop EXCEPT !.light = swap(pop.light, a, b),
                !.x = swap(pop.x, a, b),
                !.y = swap(pop.y, a, b)]

RECURSIVE partition_loop(_, _, _, _, _)
\* the for of lines 226-235 from i on: the population and idx at its end
partition_loop(pop, i, right, idx, intensity) ==
    IF i < right
    THEN IF pop.light[i] <= intensity
         THEN partition_loop(swap_tuple(pop, i, idx), i + 1, right, idx + 1, intensity)
         ELSE partition_loop(pop, i + 1, right, idx, intensity)
    ELSE [pop |-> pop, idx |-> idx]

partition(pop, left, right, pivot) ==
    LET intensity == pop.light[pivot]
        l == partition_loop(swap_tuple(pop, pivot, right), left, right, left, intensity)
    IN  [pop |-> swap_tuple(l.pop, l.idx, right), idx |-> l.idx]

\* pivot - 1 of line 207: a size_t, which wraps at 0, converted to the int right
SizeMinusOneAsInt(pivot) == IF pivot = 0 THEN -1 ELSE pivot - 1

RECURSIVE sort_flies(_, _, _)
sort_flies(pop, left, right) ==
    IF right > left
    THEN LET p == partition(pop, left, right, (left + right) \div 2)
         IN  sort_flies(sort_flies(p.pop, left, SizeMinusOneAsInt(p.idx)), p.idx + 1, right)
    ELSE pop

sort_call ==
    /\ sortSt.phase = "call"
    /\ sortSt' = [sortSt EXCEPT !.phase = "sorted",
                                !.pop = sort_flies(sortSt.pop, 0, nfflies(sortSt.pop) - 1)]
    /\ UNCHANGED <<runs, clampSt, laneSt>>

InitSort ==
    /\ \E n \in 0 .. MaxSortN :
         \E xs \in [Idx(n) -> 0 .. 1], ys \in [Idx(n) -> 0 .. 1], ls \in [Idx(n) -> 0 .. MaxLight] :
            sortSt = [phase |-> "call",
                      before |-> [x |-> xs, y |-> ys, light |-> ls],
                      pop |-> [x |-> xs, y |-> ys, light |-> ls]]
    /\ runs = Idle
    /\ clampSt = Idle
    /\ laneSt = Idle

NextSort == sort_call

SpecSort == InitSort /\ [][NextSort]_vars

Tuple(pop, k) == <<pop.x[k], pop.y[k], pop.light[k]>>
Count(pop, t) == Cardinality({k \in DOMAIN pop.x : Tuple(pop, k) = t})

\* C2: after sort_flies(pop, 0, N-1) the intensities are non-decreasing over
\* 0..N-1 and the (x, y, intensity) tuples are those before the sort, each as
\* many times.
SortCorrect ==
    sortSt.phase = "sorted" =>
        LET a == sortSt.pop
            b == sortSt.before
        IN  /\ DOMAIN a.x = DOMAIN b.x /\ DOMAIN a.y = DOMAIN b.x /\ DOMAIN a.light = DOMAIN b.x
            /\ \A k \in DOMAIN a.light : \A m \in DOMAIN a.light :
                  k <= m => a.light[k] <= a.light[m]
            /\ \A k \in DOMAIN b.x : Count(a, Tuple(b, k)) = Count(b, Tuple(b, k))
\* a sorted population of three that was in descending order, with equal
\* intensities among different tuples
SortCorrectWitness ==
    /\ sortSt.phase = "sorted"
    /\ nfflies(sortSt.pop) = 3
    /\ sortSt.before.light[0] > sortSt.before.light[1]
    /\ sortSt.before.light[1] >= sortSt.before.light[2]
    /\ sortSt.pop # sortSt.before
    /\ \E k \in DOMAIN sortSt.pop.x : \E m \in DOMAIN sortSt.pop.x :
          /\ k # m
          /\ sortSt.pop.light[k] = sortSt.pop.light[m]
          /\ Tuple(sortSt.pop, k) # Tuple(sortSt.pop, m)

(***************************************************************************)
(* fix_positions applied twice to any small population and rectangle.      *)
(***************************************************************************)
MaxClampN == 2
Coords == {-Scale, 0, Half, 2 * Scale}

fix_call ==
    /\ clampSt.phase \in {"first", "second"}
    /\ LET p == fix_positions(clampSt.pop, clampSt.rect.min, clampSt.rect.max)
       IN  clampSt' = [clampSt EXCEPT
                         !.phase = IF clampSt.phase = "first" THEN "second" ELSE "end",
                         !.pop = p,
                         !.once = IF clampSt.phase = "first" THEN p ELSE @]
    /\ UNCHANGED <<runs, sortSt, laneSt>>

InitClamp ==
    /\ \E n \in 0 .. MaxClampN : \E rect \in Rects :
         \E xs \in [Idx(n) -> Coords], ys \in [Idx(n) -> Coords], ls \in [Idx(n) -> 0 .. 1] :
            LET p == [x |-> xs, y |-> ys, light |-> ls]
            IN  clampSt = [phase |-> "first", rect |-> rect, before |-> p, once |-> p, pop |-> p]
    /\ runs = Idle
    /\ sortSt = Idle
    /\ laneSt = Idle

NextClamp == fix_call

SpecClamp == InitClamp /\ [][NextClamp]_vars

\* C7: a second fix_positions leaves the population as the first left it,
\* and fix_positions changes only x and y values.
ClampIdempotent ==
    /\ clampSt.phase = "end" => clampSt.pop = clampSt.once
    /\ clampSt.pop.light = clampSt.before.light
    /\ DOMAIN clampSt.pop.x = DOMAIN clampSt.before.x
    /\ DOMAIN clampSt.pop.y = DOMAIN clampSt.before.y
\* two calls were made, the first of which moved a firefly on both axes and
\* left another where it was
ClampIdempotentWitness ==
    /\ clampSt.phase = "end"
    /\ \E k \in DOMAIN clampSt.pop.x :
          /\ clampSt.once.x[k] # clampSt.before.x[k]
          /\ clampSt.once.y[k] # clampSt.before.y[k]
    /\ \E k \in DOMAIN clampSt.pop.x :
          /\ clampSt.once.x[k] = clampSt.before.x[k]
          /\ clampSt.once.y[k] = clampSt.before.y[k]

(***************************************************************************)
(* The outer loop of move_fflies executed as lanes: lane i runs the inner  *)
(* loop of firefly i, j ascending, with a random stream of its own; the    *)
(* lanes take their steps in any order.                                    *)
(***************************************************************************)
LaneSeed(seed, i) == (seed + 3 * i) % RandMod

RECURSIVE seq_move(_, _, _, _, _)
\* the double loop of lines 133-158 from (i, j) on, lane i drawing from rngs[i]
seq_move(pop, pop_old, i, j, rngs) ==
    LET n == nfflies(pop)
    IN  IF i >= n THEN pop
        ELSE IF j >= n THEN seq_move(pop, pop_old, i + 1, 0, rngs)
        ELSE LET m == move_pair(pop, pop_old, i, j, rngs[i])
             IN  seq_move(m.pop, pop_old, i, j + 1,
                          [rngs EXCEPT ![i] = Adv(rngs[i], m.draws)])

lane_step(i) ==
    LET L == laneSt
        m == move_pair(L.pop, L.old, i, L.j[i], L.rng[i])
    IN  /\ L.phase = "lanes"
        /\ L.j[i] < nfflies(L.pop)
        /\ laneSt' = [L EXCEPT !.pop = m.pop,
                               !.rng[i] = Adv(L.rng[i], m.draws),
                               !.j[i] = L.j[i] + 1,
                               !.last = [lane |-> i, pop |-> L.pop, old |-> L.old],
                               !.mixed = @ \/ \E k \in DOMAIN L.j : k > i /\ L.j[k] > 0]
        /\ UNCHANGED <<runs, sortSt, clampSt>>

lanes_fix ==
    LET L == laneSt
    IN  /\ L.phase = "lanes"
        /\ \A i \in DOMAIN L.j : L.j[i] >= nfflies(L.pop)
        /\ laneSt' = [L EXCEPT !.phase = "fixed",
                               !.pop = fix_positions(L.pop, L.rect.min, L.rect.max)]
        /\ UNCHANGED <<runs, sortSt, clampSt>>

InitLanes ==
    /\ \E n \in 1 .. MaxN : \E rect \in Rects : \E f \in Objectives :
         \E s1 \in 0 .. MaxSeed, s2 \in 0 .. MaxSeed :
            LET cur == evaluate(f, init_fflies(n, rect.min, rect.max, s1).pop)
                old == evaluate(f, init_fflies(n, rect.min, rect.max, s2 + MaxSeed + 1).pop)
                g   == [i \in Idx(n) |-> LaneSeed(s1, i)]
            IN  laneSt = [phase |-> "lanes", rect |-> rect, pop |-> cur, old |-> old,
                          start |-> cur, rng0 |-> g, rng |-> g,
                          j |-> [i \in Idx(n) |-> 0],
                          last |-> [lane |-> -1, pop |-> cur, old |-> old],
                          mixed |-> FALSE]
    /\ runs = Idle
    /\ sortSt = Idle
    /\ clampSt = Idle

NextLanes == (\E i \in DOMAIN laneSt.j : lane_step(i)) \/ lanes_fix

SpecLanes == InitLanes /\ [][NextLanes]_vars

\* C8: a step of lane i changes nothing but x[i] and y[i] of the current
\* population, and whatever the order of the lanes' steps the population at
\* the end is the one the sequential outer loop produces.
LaneIndependence ==
    LET L == laneSt
    IN  /\ L.phase = "lanes" =>
              /\ \A k \in DOMAIN L.pop.x :
                    k # L.last.lane => L.pop.x[k] = L.last.pop.x[k] /\ L.pop.y[k] = L.last.pop.y[k]
              /\ L.pop.light = L.last.pop.light
              /\ L.old = L.last.old
        /\ L.phase = "fixed" =>
              L.pop = fix_positions(seq_move(L.start, L.old, 0, 0, L.rng0), L.rect.min, L.rect.max)
\* three lanes ended, a later lane having stepped before an earlier one, and
\* two fireflies have moved
LaneIndependenceWitness ==
    LET L == laneSt
    IN  /\ L.phase = "fixed"
        /\ nfflies(L.pop) = 3
        /\ L.mixed
        /\ Cardinality({k \in DOMAIN L.pop.x : L.pop.x[k] # L.start.x[k]}) >= 2

====
